---- MODULE Spec2Model ----
(***************************************************************************)
(* Ceaflate (src/main.cpp): chunked zlib compression of a file into a      *)
(* container with a fixed offset table, and its decompression, with the    *)
(* chunk jobs run by perform_job either in a for loop or on detached       *)
(* threads under a polling scheduler.                                      *)
(*                                                                         *)
(* Sizes are scaled so that every boundary the code tests is reachable:    *)
(* a byte holds BYTE_RANGE values instead of 256, hence a uint32_t (four   *)
(* bytes, little-endian) holds BYTE_RANGE^4 values; CHUNK_SIZE and         *)
(* MAX_BLOCKS are scaled likewise.  size_t is 64 bits wide: no size_t      *)
(* expression of the program wraps at these sizes, so size_t values are    *)
(* plain naturals.  Indices are 0-based as in the source; a file is a      *)
(* sequence whose element k+1 is the byte at offset k.                     *)
(***************************************************************************)
EXTENDS Integers, Sequences, FiniteSets, TLC

\* ------------------------------------------------------------ constants

\* Number of values of one byte (scaled from 256).
BYTE_RANGE == 3

\* sizeof(std::uint32_t).
U32_SIZE == 4

\* #define CHUNK_SIZE static_cast<std::size_t>(0x20000), scaled.
CHUNK_SIZE == 6

\* CompressedMapHeader::MAX_BLOCKS = 0xFFFF, scaled.
MAX_BLOCKS == 5

\* UINT32_MAX for four bytes of BYTE_RANGE values each.
UINT32_MAX == BYTE_RANGE * BYTE_RANGE * BYTE_RANGE * BYTE_RANGE - 1

\* sizeof(CompressedMapHeader): block_count and MAX_BLOCKS offsets.
HEADER_SIZE == U32_SIZE + U32_SIZE * MAX_BLOCKS

Byte == 0 .. (BYTE_RANGE - 1)

\* ------------------------------------------------------------ bounds

\* Longest input file handed to compress_file.
MaxLen == 32

\* Number of input patterns (contents) per length.
NumPatterns == 3

\* Largest value std::thread::hardware_concurrency() returns.
MaxThreads == 3

\* Longest input file in the specification with thread interleavings.
MaxLenPar == 24

\* Most chunks of a container that another writer made.
MaxForeignBlocks == 2

\* ------------------------------------------------------------ bytes

Min(a, b) == IF a < b THEN a ELSE b

Pow(b, k) == IF k = 0 THEN 1 ELSE IF k = 1 THEN b ELSE IF k = 2 THEN b * b ELSE b * b * b

\* static_cast<std::uint32_t>(v) of a size_t v.
CastU32(v) == v % (UINT32_MAX + 1)

\* The four bytes a uint32_t store writes (little-endian).
EncodeU32(v) == [k \in 1 .. U32_SIZE |-> (v \div Pow(BYTE_RANGE, k - 1)) % BYTE_RANGE]

\* The uint32_t a load reads from the four bytes at offset off of mem.
DecodeU32(mem, off) ==
    mem[off + 1] + BYTE_RANGE * mem[off + 2]
      + BYTE_RANGE * BYTE_RANGE * mem[off + 3]
      + BYTE_RANGE * BYTE_RANGE * BYTE_RANGE * mem[off + 4]

Zeros(n) == [k \in 1 .. n |-> 0]

\* The bytes [off, off + n) of mem.
Slice(mem, off, n) == [k \in 1 .. n |-> mem[off + k]]

RECURSIVE SumSeq(_)
SumSeq(s) == IF s = <<>> THEN 0 ELSE s[1] + SumSeq(Tail(s))

RECURSIVE Flatten(_)
Flatten(ss) == IF ss = <<>> THEN <<>> ELSE ss[1] \o Flatten(Tail(ss))

\* ------------------------------------------------------------ zlib
(* zlib is an external library; deflate and inflate are modelled by their  *)
(* contract with a self-terminating stream that has zlib's shape: a header *)
(* byte, one block (stored, or a run of one repeated byte), and a checksum *)
(* trailer.  The stream of n incompressible bytes is n + 5 bytes long; a    *)
(* run is shorter.                                                         *)

Z_MAGIC == 2
Z_STORED == 0
Z_RUN == 1

LenDigits(n) == <<n % BYTE_RANGE, (n \div BYTE_RANGE) % BYTE_RANGE>>

Checksum(data) == SumSeq(data) % BYTE_RANGE

IsRun(data) == Len(data) >= 2 /\ \A k \in 1 .. Len(data) : data[k] = data[1]

\* The complete stream deflate produces for data under Z_FINISH.
ZStream(data) ==
    IF IsRun(data)
    THEN <<Z_MAGIC, Z_RUN>> \o LenDigits(Len(data)) \o <<data[1]>> \o <<Checksum(data)>>
    ELSE <<Z_MAGIC, Z_STORED>> \o LenDigits(Len(data)) \o data \o <<Checksum(data)>>

\* deflateInit + deflate(Z_FINISH) + deflateEnd with avail_out bytes of
\* room: Z_STREAM_END only if the whole stream fits.
Deflate(data, avail_out) ==
    LET s == ZStream(data)
    IN  IF Len(s) <= avail_out
        THEN [ok |-> TRUE, out |-> s, total_out |-> Len(s)]
        ELSE [ok |-> FALSE, out |-> SubSeq(s, 1, avail_out), total_out |-> avail_out]

\* inflateInit + inflate(Z_FINISH) + inflateEnd on the avail_in bytes of
\* view with avail_out bytes of room.  Z_STREAM_END is returned when the
\* stream ends within the input and its data fits the room; data shorter
\* than the room is no error.  consumed is the number of input bytes read.
Inflate(view, avail_out) ==
    LET n == Len(view)
        bad(c) == [ok |-> FALSE, out |-> <<>>, consumed |-> c]
    IN  IF n < 1 THEN bad(n)
        ELSE IF view[1] # Z_MAGIC THEN bad(1)
        ELSE IF n < 2 THEN bad(n)
        ELSE IF view[2] \notin {Z_STORED, Z_RUN} THEN bad(2)
        ELSE IF n < 4 THEN bad(n)
        ELSE LET dlen == view[3] + BYTE_RANGE * view[4]
                 stored == view[2] = Z_STORED
                 used == IF stored THEN 4 + dlen + 1 ELSE 4 + 1 + 1
             IN  IF n < used THEN bad(n)
                 ELSE LET data == IF stored THEN Slice(view, 4, dlen)
                                  ELSE [k \in 1 .. dlen |-> view[5]]
                      IN  IF dlen > avail_out THEN bad(used - 1)
                          ELSE IF view[used] # Checksum(data) THEN bad(used)
                          ELSE [ok |-> TRUE, out |-> data, consumed |-> used]

\* ------------------------------------------------------------ state

VARIABLES
    stage,        \* "c": compress_file runs; "d": decompress_file runs
    orig,         \* the file first handed to compress_file
    in_file,      \* the bytes read_file returned to the running operation
    beyond,       \* the memory after in_file's buffer (read only out of bounds)
    corruptible,  \* the container offsets the environment may change before decompression
    tamper_at,    \* offset of the container byte changed before decompression, or -1
    max_threads,  \* std::thread::hardware_concurrency()
    foreign_unlock, \* what unlocking a mutex from a thread that does not own it does
    pc,           \* the operation: "start", "job" (inside perform_job), "joined", "exit"
    block_count,
    workers,      \* std::vector<Worker>, indexed 0 .. block_count - 1
    out_file,     \* [exists, bytes]: the output file of the running operation
    exit_code,    \* "none", "EXIT_SUCCESS", "EXIT_FAILURE"
    reported,     \* block indices printed as failed
    error,        \* the diagnostic printed besides those: "none", "block_count",
                  \* "max_blocks", "invalid_offset", "size_limit", "write"
    spc,          \* perform_job: "idle", "seq", "next", "busy", "decide", "returned"
    next,         \* next_worker's result (-1: nullptr)
    busy_count,   \* busy_workers' count
    bi,           \* index of the loop in busy_workers, or in the for loop
    tpc,          \* per worker, its detached thread: "none", "codec", "unlock", "exited"
    launched,     \* the workers function was called on, in call order
    completed,    \* the workers whose function call has ended, in that order
    unlocks       \* per worker, the unlock calls that released its mutex: how many
                  \* by the job's function, and whether busy_workers made one

inputVars == <<stage, orig, in_file, beyond, corruptible, tamper_at, max_threads, foreign_unlock>>

resultVars == <<out_file, exit_code, reported, error>>

schedVars == <<spc, next, busy_count, bi>>

jobVars == <<workers, tpc, launched, completed, unlocks>>

vars == <<inputVars, pc, block_count, resultVars, schedVars, jobVars>>

NoFile == [exists |-> FALSE, bytes |-> <<>>]

Range(s) == {s[k] : k \in DOMAIN s}

\* ------------------------------------------------------------ planning

\* struct Worker after construction.
NewWorker ==
    [input |-> 0, input_size |-> 0, output |-> <<>>, output_size |-> 0, offset |-> 0,
     failure |-> FALSE, mutex |-> FALSE, started |-> FALSE]

\* compress_file: block_count of a file of file_size bytes.
CompressBlockCount(file_size) ==
    file_size \div CHUNK_SIZE + (IF file_size % CHUNK_SIZE > 0 THEN 1 ELSE 0)

\* compress_file, "Set up the worker": the worker of block i.
CompressWorker(file_size, i) ==
    LET offset == i * CHUNK_SIZE
        remaining_size == Min(file_size - offset, CHUNK_SIZE)
        max_size == remaining_size * 2 + U32_SIZE
    IN  [NewWorker EXCEPT
            !.offset = U32_SIZE,
            !.input = offset,
            !.input_size = remaining_size,
            !.output = EncodeU32(CastU32(remaining_size)) \o Zeros(max_size - U32_SIZE),
            !.output_size = max_size]

\* compress_file up to perform_job: the block count check and the
\* "Allocate workers" loop with its offset check.
CompressPlan(file) ==
    LET file_size == Len(file)
        bc == CompressBlockCount(file_size)
    IN  IF bc > MAX_BLOCKS
        THEN [ok |-> FALSE, error |-> "max_blocks", block_count |-> bc, workers |-> <<>>]
        ELSE IF \E i \in 0 .. bc - 1 : i * CHUNK_SIZE + U32_SIZE > file_size
        THEN [ok |-> FALSE, error |-> "invalid_offset", block_count |-> bc, workers |-> <<>>]
        ELSE [ok |-> TRUE, error |-> "none", block_count |-> bc,
              workers |-> [i \in 0 .. bc - 1 |-> CompressWorker(file_size, i)]]

\* header.block_offsets[i] of a container.
BlockOffset(file, i) == DecodeU32(file, U32_SIZE + U32_SIZE * i)

\* decompress_file, "Set up the worker": the worker of block i.
DecompressWorker(file, i) ==
    LET file_size == Len(file)
        offset == BlockOffset(file, i)
        uncompressed_size == DecodeU32(file, offset)
        remaining_size == file_size - offset + U32_SIZE
    IN  [NewWorker EXCEPT
            !.input = offset + U32_SIZE,
            !.input_size = remaining_size,
            !.output = Zeros(uncompressed_size),
            !.output_size = uncompressed_size]

\* decompress_file checking all MAX_BLOCKS offsets of the table.
DecompressPlanWholeTable(file) ==
    LET file_size == Len(file)
        bc == DecodeU32(file, 0)
    IN  IF bc > MAX_BLOCKS \/ bc = 0
        THEN [ok |-> FALSE, error |-> "block_count", block_count |-> bc, workers |-> <<>>]
        ELSE IF \E i \in 0 .. MAX_BLOCKS - 1 : BlockOffset(file, i) + U32_SIZE > file_size
        THEN [ok |-> FALSE, error |-> "invalid_offset", block_count |-> bc, workers |-> <<>>]
        ELSE [ok |-> TRUE, error |-> "none", block_count |-> bc,
              workers |-> [i \in 0 .. bc - 1 |-> DecompressWorker(file, i)]]

\* decompress_file up to perform_job: the block count checks and the
\* "Allocate workers" loop with its offset check.
DecompressPlan(file) ==
    LET file_size == Len(file)
        bc == DecodeU32(file, 0)
    IN  IF bc > MAX_BLOCKS \/ bc = 0
        THEN [ok |-> FALSE, error |-> "block_count", block_count |-> bc, workers |-> <<>>]
        ELSE IF \E i \in 0 .. bc - 1 : BlockOffset(file, i) + U32_SIZE > file_size
        THEN [ok |-> FALSE, error |-> "invalid_offset", block_count |-> bc, workers |-> <<>>]
        ELSE [ok |-> TRUE, error |-> "none", block_count |-> bc,
              workers |-> [i \in 0 .. bc - 1 |-> DecompressWorker(file, i)]]

\* ------------------------------------------------------------ jobs

\* perform_compression before the unlock.
CompressCodec(w, file) ==
    LET r == Deflate(Slice(file, w.input, w.input_size), w.output_size - U32_SIZE)
        head == SubSeq(w.output, 1, U32_SIZE)
        room == Len(w.output) - U32_SIZE
    IN  IF r.ok
        THEN [w EXCEPT !.output = head \o r.out \o Zeros(room - Len(r.out)),
                       !.output_size = r.total_out + U32_SIZE]
        ELSE [w EXCEPT !.output = head \o r.out, !.failure = TRUE]

\* perform_decompression before the unlock; mem is the input buffer
\* followed by the memory after it.
DecompressCodec(w, mem) ==
    LET r == Inflate(Slice(mem, w.input, w.input_size), w.output_size)
    IN  IF r.ok
        THEN [w EXCEPT !.output = r.out \o Zeros(w.output_size - Len(r.out))]
        ELSE [w EXCEPT !.failure = TRUE]

\* ------------------------------------------------------------ output

\* write_file's loop over the workers from index i, appending to bytes:
\* fwrite(ptr, size, 1, f) returns 0, taken as an error, when size is 0.
RECURSIVE WriteWorkers(_, _, _, _)
WriteWorkers(ws, bc, i, bytes) ==
    IF i >= bc THEN [ok |-> TRUE, bytes |-> bytes]
    ELSE IF ws[i].output_size = 0 THEN [ok |-> FALSE, bytes |-> bytes]
    ELSE WriteWorkers(ws, bc, i + 1, bytes \o SubSeq(ws[i].output, 1, ws[i].output_size))

\* write_file: the file is opened (created), start is written when it is
\* not empty, then the workers' outputs.
write_file(ws, bc, start) == WriteWorkers(ws, bc, 0, start)

\* "Set the offsets" without the UINT32_MAX check: offsets wrap.
RECURSIVE SetOffsetsNoLimit(_, _, _, _, _)
SetOffsetsNoLimit(ws, bc, i, current_offset, offsets) ==
    IF i >= bc THEN [ok |-> TRUE, offsets |-> offsets]
    ELSE SetOffsetsNoLimit(ws, bc, i + 1, current_offset + ws[i].output_size,
                           Append(offsets, CastU32(current_offset)))

\* compress_file, "Set the offsets": the table, or failure when an offset
\* does not fit a uint32_t.
RECURSIVE SetOffsets(_, _, _, _, _)
SetOffsets(ws, bc, i, current_offset, offsets) ==
    IF i >= bc THEN [ok |-> TRUE, offsets |-> offsets]
    ELSE IF current_offset > UINT32_MAX THEN [ok |-> FALSE, offsets |-> offsets]
    ELSE SetOffsets(ws, bc, i + 1, current_offset + ws[i].output_size,
                    Append(offsets, CastU32(current_offset)))

\* The bytes of a CompressedMapHeader: unset offsets stay zero.
HeaderBytes(bc, offsets) ==
    EncodeU32(CastU32(bc))
      \o Flatten([k \in 1 .. MAX_BLOCKS |->
                    IF k <= Len(offsets) THEN EncodeU32(offsets[k]) ELSE Zeros(U32_SIZE)])

\* The failure loop stopping at the first failing index.
FailedBlocksFirst(ws, bc) ==
    LET f == {i \in 0 .. bc - 1 : ws[i].failure}
    IN  IF f = {} THEN {} ELSE {CHOOSE i \in f : \A j \in f : i <= j}

\* The "If we failed, error out" loop: the indices printed.
FailedBlocks(ws, bc) == {i \in 0 .. bc - 1 : ws[i].failure}

\* What an operation leaves behind.
Outcome(code, file, rep, err) ==
    [exit_code |-> code, out_file |-> file, reported |-> rep, error |-> err]

\* compress_file after perform_job: the failure loop, "Set the offsets",
\* write_file with the header as start.
CompressOutcome(ws, bc) ==
    LET failed == FailedBlocks(ws, bc)
        so == SetOffsets(ws, bc, 0, HEADER_SIZE, <<>>)
        wf == write_file(ws, bc, HeaderBytes(bc, so.offsets))
    IN  IF failed # {} THEN Outcome("EXIT_FAILURE", NoFile, failed, "none")
        ELSE IF ~so.ok THEN Outcome("EXIT_FAILURE", NoFile, {}, "size_limit")
        ELSE IF ~wf.ok
        THEN Outcome("EXIT_FAILURE", [exists |-> TRUE, bytes |-> wf.bytes], {}, "write")
        ELSE Outcome("EXIT_SUCCESS", [exists |-> TRUE, bytes |-> wf.bytes], {}, "none")

\* decompress_file after perform_job: the failure loop, write_file.
DecompressOutcome(ws, bc) ==
    LET failed == FailedBlocks(ws, bc)
        wf == write_file(ws, bc, <<>>)
    IN  IF failed # {} THEN Outcome("EXIT_FAILURE", NoFile, failed, "none")
        ELSE IF ~wf.ok
        THEN Outcome("EXIT_FAILURE", [exists |-> TRUE, bytes |-> wf.bytes], {}, "write")
        ELSE Outcome("EXIT_SUCCESS", [exists |-> TRUE, bytes |-> wf.bytes], {}, "none")

\* ------------------------------------------------------------ inputs

\* Byte k of the input with pattern p: all zero (every chunk a run),
\* incompressible, runs and incompressible chunks alternating, others.
PatByte(p, k) ==
    CASE p = 0 -> 0
      [] p = 1 -> k % BYTE_RANGE
      [] p = 2 -> IF (k \div CHUNK_SIZE) % 2 = 0 THEN 1 ELSE k % BYTE_RANGE
      [] OTHER -> (k \div 2 + p) % BYTE_RANGE

Input(n, p) == [k \in 1 .. n |-> PatByte(p, k - 1)]

Inputs(maxlen) == {Input(n, p) : n \in 0 .. maxlen, p \in 0 .. NumPatterns - 1}

\* A chunk's record in a container: the 4-byte uncompressed size, then
\* the chunk's complete stream.
ChunkRecord(data) == EncodeU32(CastU32(Len(data))) \o ZStream(data)

\* The container of the chunks cs: the header with block_count and the
\* offset of each record, then the records.
Container(cs) ==
    LET recs == [k \in 1 .. Len(cs) |-> ChunkRecord(cs[k])]
        offs == [k \in 1 .. Len(cs) |->
                   HEADER_SIZE + SumSeq([j \in 1 .. k - 1 |-> Len(recs[j])])]
    IN  HeaderBytes(Len(cs), offs) \o Flatten(recs)

\* The chunks of the containers another writer made: an empty chunk, one
\* byte, a run.
ForeignChunks == {<<>>, <<1>>, <<0, 0>>}

ForeignChunkLists == UNION {[1 .. n -> ForeignChunks] : n \in 1 .. MaxForeignBlocks}

\* What the memory after the input buffer may hold: zeros, or the bytes
\* of a complete empty stream.
BeyondSet == {Zeros(2 * U32_SIZE), <<Z_MAGIC, Z_STORED>> \o Zeros(2 * U32_SIZE - 2)}

\* The state when main calls an operation on file f.
Enter(f) ==
    /\ in_file = f
    /\ pc = "start"
    /\ block_count = 0
    /\ workers = <<>>
    /\ out_file = NoFile
    /\ exit_code = "none"
    /\ reported = {}
    /\ error = "none"
    /\ spc = "idle"
    /\ next = -1
    /\ busy_count = 0
    /\ bi = 0
    /\ tpc = <<>>
    /\ launched = <<>>
    /\ completed = <<>>
    /\ unlocks = <<>>

\* The state when main calls compress_file on file b.
InitWith(b, mt, fu, co) ==
    /\ stage = "c"
    /\ orig = b
    /\ beyond = Zeros(2 * U32_SIZE)
    /\ corruptible = co
    /\ tamper_at = -1
    /\ max_threads = mt
    /\ foreign_unlock = fu
    /\ Enter(b)

\* ------------------------------------------------------------ operations

\* Leaving the operation before perform_job with EXIT_FAILURE.
FailEarly(plan) ==
    /\ pc' = "exit"
    /\ exit_code' = "EXIT_FAILURE"
    /\ error' = plan.error
    /\ UNCHANGED <<workers, tpc, unlocks>>

\* No unlock call has released the mutex yet.
NoUnlocks == [job |-> 0, poll |-> FALSE]

\* Workers allocated: the operation calls perform_job.
CallPerformJob(plan) ==
    /\ pc' = "job"
    /\ workers' = plan.workers
    /\ tpc' = [i \in 0 .. plan.block_count - 1 |-> "none"]
    /\ unlocks' = [i \in 0 .. plan.block_count - 1 |-> NoUnlocks]
    /\ UNCHANGED <<exit_code, error>>

\* compress_file from read_file to the call of perform_job.
CompressStart ==
    /\ stage = "c" /\ pc = "start"
    /\ LET plan == CompressPlan(in_file)
       IN  /\ block_count' = plan.block_count
           /\ IF plan.ok THEN CallPerformJob(plan) ELSE FailEarly(plan)
    /\ UNCHANGED <<inputVars, out_file, reported, schedVars, launched, completed>>

\* decompress_file from read_file to the call of perform_job.
DecompressStart ==
    /\ stage = "d" /\ pc = "start"
    /\ LET plan == DecompressPlan(in_file)
       IN  /\ block_count' = plan.block_count
           /\ IF plan.ok THEN CallPerformJob(plan) ELSE FailEarly(plan)
    /\ UNCHANGED <<inputVars, out_file, reported, schedVars, launched, completed>>

\* The operation ends with outcome o.
Finish(o) ==
    /\ pc' = "exit"
    /\ exit_code' = o.exit_code
    /\ out_file' = o.out_file
    /\ reported' = o.reported
    /\ error' = o.error
    /\ UNCHANGED <<inputVars, block_count, schedVars, jobVars>>

\* compress_file after perform_job returned.
CompressFinish ==
    /\ stage = "c" /\ pc = "joined"
    /\ Finish(CompressOutcome(workers, block_count))

\* decompress_file after perform_job returned.
DecompressFinish ==
    /\ stage = "d" /\ pc = "joined"
    /\ Finish(DecompressOutcome(workers, block_count))

\* The state when main calls decompress_file on file f, with mem after it;
\* o is the data the container was made from.
EnterDecompress(o, f, mem, at) ==
    /\ stage' = "d"
    /\ orig' = o
    /\ beyond' = mem
    /\ tamper_at' = at
    /\ in_file' = f
    /\ pc' = "start"
    /\ block_count' = 0
    /\ workers' = <<>>
    /\ out_file' = NoFile
    /\ exit_code' = "none"
    /\ reported' = {}
    /\ error' = "none"
    /\ spc' = "idle"
    /\ next' = -1
    /\ busy_count' = 0
    /\ bi' = 0
    /\ tpc' = <<>>
    /\ launched' = <<>>
    /\ completed' = <<>>
    /\ unlocks' = <<>>
    /\ UNCHANGED <<corruptible, max_threads, foreign_unlock>>

\* A second run of the program: main calls decompress_file on the
\* container the compression wrote.
RunDecompress ==
    /\ stage = "c" /\ pc = "exit" /\ exit_code = "EXIT_SUCCESS"
    /\ \E mem \in BeyondSet : EnterDecompress(orig, out_file.bytes, mem, -1)

\* The same, after one byte of the container was changed on disk.
RunDecompressCorrupted ==
    /\ stage = "c" /\ pc = "exit" /\ exit_code = "EXIT_SUCCESS"
    /\ \E at \in corruptible \cap (0 .. Len(out_file.bytes) - 1) :
         \E v \in Byte \ {out_file.bytes[at + 1]} :
           \E mem \in BeyondSet :
             EnterDecompress(orig, [out_file.bytes EXCEPT ![at + 1] = v], mem, at)

\* Instead of compress_file, main calls decompress_file on a valid
\* container that another writer made.
RunDecompressForeign ==
    /\ stage = "c" /\ pc = "start"
    /\ \E cs \in ForeignChunkLists :
         \E mem \in BeyondSet : EnterDecompress(Flatten(cs), Container(cs), mem, -1)

\* ------------------------------------------------------------ perform_job

\* The codec part of function(worker), for the operation that runs.
Codec(w) ==
    IF stage = "c" THEN CompressCodec(w, in_file) ELSE DecompressCodec(w, in_file \o beyond)

\* worker->mutex.unlock() by the thread that locked it.
Unlock(w) == [w EXCEPT !.mutex = FALSE]

\* worker->mutex.unlock() by a detached thread; perform_job's thread holds
\* the lock, so the standard leaves the behaviour undefined: a plain mutex
\* is released, a checking one is left locked.
UnlockForeign(w) == IF foreign_unlock = "release" THEN [w EXCEPT !.mutex = FALSE] ELSE w

\* perform_job without "Lock the mutex!".
LockNone(ws, bc) == ws

\* "Lock the mutex!"
LockAll(ws, bc) == [i \in 0 .. bc - 1 |-> [ws[i] EXCEPT !.mutex = TRUE]]

\* "If we aren't threaded, just do a for loop": the workers after it.
ForLoop(ws, bc) == [i \in 0 .. bc - 1 |-> Unlock(Codec(ws[i]))]

\* next_worker returning the last worker not started.
next_workerLast(ws, bc) ==
    IF \E i \in 0 .. bc - 1 : ~ws[i].started
    THEN CHOOSE i \in 0 .. bc - 1 : ~ws[i].started /\ \A j \in i + 1 .. bc - 1 : ws[j].started
    ELSE -1

\* next_worker: the first worker not started, -1 for nullptr.
next_worker(ws, bc) ==
    IF \E i \in 0 .. bc - 1 : ~ws[i].started
    THEN CHOOSE i \in 0 .. bc - 1 : ~ws[i].started /\ \A j \in 0 .. i - 1 : ws[j].started
    ELSE -1

\* busy_workers counting the locked workers that are not started.
BusyIncrementInverted(w) == IF ~w.mutex THEN 0 ELSE IF w.started THEN 0 ELSE 1

\* One iteration of busy_workers' loop on worker w: what it adds to count.
\* try_lock succeeds on a released mutex, which is unlocked again at once;
\* on a mutex still held since "Lock the mutex!" (held by the calling
\* thread itself) it fails, as a plain mutex does.
BusyIncrement(w) == IF ~w.mutex THEN 0 ELSE IF w.started THEN 1 ELSE 0

\* worker->mutex.unlock() at the end of function(worker), taking the
\* worker from before to after: u counts it when it released the mutex.
JobUnlock(u, before, after) ==
    IF before.mutex /\ ~after.mutex THEN [u EXCEPT !.job = @ + 1] ELSE u

\* busy_workers on worker w: when try_lock succeeds the mutex is taken and
\* released again by w.mutex.unlock(), which u records.
PollUnlock(u, w) == IF ~w.mutex THEN [u EXCEPT !.poll = TRUE] ELSE u

\* perform_job returns to the operation that called it.
Return ==
    /\ spc' = "returned"
    /\ pc' = "joined"

\* perform_job's entry: the empty check, "Lock the mutex!", and the choice
\* between the for loop and the scheduler.
PerformJobEnter ==
    /\ pc = "job" /\ spc = "idle"
    /\ IF block_count = 0
       THEN Return /\ UNCHANGED workers
       ELSE /\ workers' = LockAll(workers, block_count)
            /\ spc' = IF max_threads <= 1 THEN "seq" ELSE "next"
            /\ pc' = pc
    /\ UNCHANGED <<inputVars, block_count, resultVars, next, busy_count, bi, tpc,
                   launched, completed, unlocks>>

\* The for loop: one iteration.
SeqCall ==
    /\ pc = "job" /\ spc = "seq" /\ bi < block_count
    /\ workers' = [workers EXCEPT ![bi] = Unlock(Codec(workers[bi]))]
    /\ launched' = Append(launched, bi)
    /\ completed' = Append(completed, bi)
    /\ unlocks' = [unlocks EXCEPT ![bi] = JobUnlock(@, workers[bi], Unlock(workers[bi]))]
    /\ bi' = bi + 1
    /\ IF bi + 1 = block_count THEN Return ELSE UNCHANGED <<spc, pc>>
    /\ UNCHANGED <<inputVars, block_count, resultVars, next, busy_count, tpc>>

\* The scheduler loop's next_worker call.
SchedNext ==
    /\ pc = "job" /\ spc = "next"
    /\ next' = next_worker(workers, block_count)
    /\ spc' = "busy"
    /\ bi' = 0
    /\ busy_count' = 0
    /\ UNCHANGED <<inputVars, pc, block_count, resultVars, jobVars>>

\* One iteration of busy_workers' loop.
SchedBusy ==
    /\ pc = "job" /\ spc = "busy" /\ bi < block_count
    /\ busy_count' = busy_count + BusyIncrement(workers[bi])
    /\ bi' = bi + 1
    /\ spc' = IF bi + 1 = block_count THEN "decide" ELSE "busy"
    /\ unlocks' = [unlocks EXCEPT ![bi] = PollUnlock(@, workers[bi])]
    /\ UNCHANGED <<inputVars, pc, block_count, resultVars, next, workers, tpc,
                   launched, completed>>

\* The break that does not wait for busy workers.
ShouldBreakNoWait == next = -1

\* if(busy_count == 0 && !next)
ShouldBreak == busy_count = 0 /\ next = -1

\* The launch guard comparing with <=.
CanLaunchOffByOne == next # -1 /\ busy_count <= max_threads

\* else if(next && busy_count < max_threads)
CanLaunch == next # -1 /\ busy_count < max_threads

\* break: perform_job returns.
SchedBreak ==
    /\ pc = "job" /\ spc = "decide"
    /\ ShouldBreak
    /\ Return
    /\ UNCHANGED <<inputVars, block_count, resultVars, next, busy_count, bi, jobVars>>

\* started is set and the detached thread is created.
SchedLaunch ==
    /\ pc = "job" /\ spc = "decide"
    /\ ~ShouldBreak
    /\ CanLaunch
    /\ workers' = [workers EXCEPT ![next].started = TRUE]
    /\ tpc' = [tpc EXCEPT ![next] = "codec"]
    /\ launched' = Append(launched, next)
    /\ spc' = "next"
    /\ UNCHANGED <<inputVars, pc, block_count, resultVars, next, busy_count, bi, completed,
                   unlocks>>

\* else sleep_for(1 ms).
SchedSleep ==
    /\ pc = "job" /\ spc = "decide"
    /\ ~ShouldBreak
    /\ ~CanLaunch
    /\ spc' = "next"
    /\ UNCHANGED <<inputVars, pc, block_count, resultVars, next, busy_count, bi, jobVars>>

\* A detached thread runs function(worker) up to the unlock.
ThreadCodec(i) ==
    /\ tpc[i] = "codec"
    /\ workers' = [workers EXCEPT ![i] = Codec(workers[i])]
    /\ tpc' = [tpc EXCEPT ![i] = "unlock"]
    /\ UNCHANGED <<inputVars, pc, block_count, resultVars, schedVars, launched, completed,
                   unlocks>>

\* A detached thread unlocks its worker's mutex and ends.
ThreadUnlock(i) ==
    /\ tpc[i] = "unlock"
    /\ workers' = [workers EXCEPT ![i] = UnlockForeign(workers[i])]
    /\ tpc' = [tpc EXCEPT ![i] = "exited"]
    /\ completed' = Append(completed, i)
    /\ unlocks' = [unlocks EXCEPT ![i] = JobUnlock(@, workers[i], UnlockForeign(workers[i]))]
    /\ UNCHANGED <<inputVars, pc, block_count, resultVars, schedVars, launched>>

ThreadStep == \E i \in DOMAIN tpc : ThreadCodec(i) \/ ThreadUnlock(i)

\* ------------------------------------------------------------ specifications

AllOffsets == 0 .. (UINT32_MAX + HEADER_SIZE)

\* The operations with perform_job's for loop (hardware_concurrency <= 1),
\* on every input up to MaxLen, with any one byte of the container changed.
InitSeq ==
    \E b \in Inputs(MaxLen) : \E mt \in 0 .. 1 : InitWith(b, mt, "release", AllOffsets)

NextSeq ==
    \/ CompressStart
    \/ DecompressStart
    \/ PerformJobEnter
    \/ SeqCall
    \/ CompressFinish
    \/ DecompressFinish
    \/ RunDecompress
    \/ RunDecompressCorrupted
    \/ RunDecompressForeign

SpecSeq == InitSeq /\ [][NextSeq]_vars

\* The container offsets changed in the specification with threads: a
\* byte of block_count and a byte of block 0's stream.
ParCorruptible == {1, HEADER_SIZE + U32_SIZE + 1}

\* The operations under every hardware_concurrency up to MaxThreads and
\* every interleaving of the scheduler and the detached threads.
Init ==
    \E b \in Inputs(MaxLenPar) : \E mt \in 0 .. MaxThreads :
      \E fu \in {"release", "keep"} : InitWith(b, mt, fu, ParCorruptible)

Next ==
    \/ NextSeq
    \/ SchedNext
    \/ SchedBusy
    \/ SchedBreak
    \/ SchedLaunch
    \/ SchedSleep
    \/ ThreadStep

Spec == Init /\ [][Next]_vars

\* perform_job's thread keeps running (its loop has no blocking call
\* besides the 1 ms sleep), every codec call ends, and every detached
\* thread is scheduled until it ends.
Fairness ==
    /\ WF_vars(PerformJobEnter \/ SeqCall \/ SchedNext \/ SchedBusy
                  \/ SchedBreak \/ SchedLaunch \/ SchedSleep)
    /\ \A i \in 0 .. MAX_BLOCKS - 1 :
         WF_vars(i \in DOMAIN tpc /\ (ThreadCodec(i) \/ ThreadUnlock(i)))

\* Spec with the scheduling the code relies on.
SpecFair == Init /\ [][Next]_vars /\ Fairness

\* ------------------------------------------------------------ claims

\* ceil(n / CHUNK_SIZE).
CeilChunks(n) == (n + CHUNK_SIZE - 1) \div CHUNK_SIZE

\* The detached threads that were launched and have not finished.
Running == {i \in DOMAIN tpc : tpc[i] \in {"codec", "unlock"}}

\* The workers whose failure flag is set.
Failing == {i \in DOMAIN workers : workers[i].failure}

\* The record worker i hands to write_file.
Record(i) == SubSeq(workers[i].output, 1, workers[i].output_size)

\* Header size plus the output sizes of the workers before i.
RunningSum(i) == HEADER_SIZE + SumSeq([k \in 1 .. i |-> workers[k - 1].output_size])

\* C1: round trip.  Compressing any input (capacity errors aside) succeeds,
\* and decompressing the container it wrote succeeds and yields the input.
C1_RoundTrip ==
    /\ (stage = "c" /\ pc = "exit" /\ error \notin {"max_blocks", "size_limit"})
         => exit_code = "EXIT_SUCCESS"
    /\ (stage = "d" /\ pc = "exit" /\ tamper_at = -1)
         => (exit_code = "EXIT_SUCCESS" /\ out_file.bytes = orig)

\* C2: scheduler capacity.  The launched and unfinished jobs never number
\* more than hardware_concurrency.
C2_SchedulerCapacity == Cardinality(Running) <= max_threads

\* C2's case: the scheduler decides with max_threads jobs running and a
\* job pending.
C2_AtCapacity ==
    /\ spc = "decide" /\ max_threads >= 2
    /\ Cardinality(Running) = max_threads
    /\ next # -1 /\ ~workers[next].started

\* C3: codec errors do not abort.  When an operation ends with a failed
\* job, every job was called once and ran to its end, every failing index
\* was printed, the exit code is failure and no output file exists.
C3_CodecErrorsDoNotAbort ==
    (pc = "exit" /\ Failing # {}) =>
        /\ \A i \in 0 .. block_count - 1 :
             /\ Cardinality({k \in DOMAIN launched : launched[k] = i}) = 1
             /\ i \in Range(completed)
        /\ reported = Failing
        /\ exit_code = "EXIT_FAILURE"
        /\ ~out_file.exists

\* C3's case: under the scheduler, a job failed and a later job ran to
\* its end without failure.
C3_OneFailedOthersRan ==
    /\ pc = "exit" /\ max_threads >= 2 /\ exit_code = "EXIT_FAILURE"
    /\ \E i, j \in DOMAIN workers :
         /\ i < j /\ workers[i].failure /\ ~workers[j].failure
         /\ j \in Range(completed)

\* A header decompress_file must reject: block_count is 0 or above
\* MAX_BLOCKS, or one of the first block_count offsets leaves no room for
\* a size prefix.
InvalidContainer(file) ==
    LET bc == DecodeU32(file, 0)
    IN  \/ bc = 0
        \/ bc > MAX_BLOCKS
        \/ \E i \in 0 .. bc - 1 : BlockOffset(file, i) + U32_SIZE > Len(file)

\* C4: validation precedes all work.  decompress_file on an invalid header
\* fails with no job called and no output file; a header that is valid in
\* its first block_count entries is never rejected for its format.
C4_ValidationPrecedesWork ==
    (stage = "d" /\ pc # "start") =>
        IF InvalidContainer(in_file)
        THEN /\ pc = "exit" /\ exit_code = "EXIT_FAILURE"
             /\ launched = <<>> /\ completed = <<>>
             /\ ~out_file.exists
        ELSE error \notin {"block_count", "invalid_offset"}

\* C4's case: a container whose block count is valid was rejected for an
\* offset out of bounds.
C4_RejectedBadOffset ==
    /\ stage = "d" /\ pc = "exit" /\ error = "invalid_offset"
    /\ block_count \in 1 .. MAX_BLOCKS
    /\ launched = <<>> /\ ~out_file.exists

\* C5: chunk count.  The header of a written container has block_count
\* ceil(len / CHUNK_SIZE), and 1 for the empty input.
C5_ChunkCount ==
    (stage = "c" /\ out_file.exists) =>
        DecodeU32(out_file.bytes, 0) = (IF Len(orig) = 0 THEN 1 ELSE CeilChunks(Len(orig)))

\* C6: chunk partition.  Every input of at most MAX_BLOCKS chunks is
\* accepted by the planning, and job i gets the bytes
\* [i * C, min((i + 1) * C, S)), a buffer of twice that length plus 4, and
\* the length as the buffer's 4-byte prefix.
C6_ChunkPartition ==
    (stage = "c" /\ pc # "start" /\ CeilChunks(Len(orig)) <= MAX_BLOCKS) =>
        /\ error \notin {"max_blocks", "invalid_offset"}
        /\ block_count = CeilChunks(Len(orig))
        /\ (pc = "job" /\ spc = "idle") =>
              \A i \in 0 .. block_count - 1 :
                LET lo == i * CHUNK_SIZE
                    hi == Min((i + 1) * CHUNK_SIZE, Len(orig))
                IN  /\ workers[i].input = lo
                    /\ workers[i].input_size = hi - lo
                    /\ workers[i].output_size = 2 * (hi - lo) + U32_SIZE
                    /\ Len(workers[i].output) = 2 * (hi - lo) + U32_SIZE
                    /\ DecodeU32(workers[i].output, 0) = hi - lo

\* C7: offset monotonicity.  In a written container block_offsets[0] is
\* the header size, each next offset is the previous one plus the actual
\* record length of that job, and each record lies at its offset.
C7_OffsetMonotonicity ==
    (stage = "c" /\ out_file.exists) =>
        /\ BlockOffset(out_file.bytes, 0) = HEADER_SIZE
        /\ \A i \in 0 .. block_count - 2 :
             BlockOffset(out_file.bytes, i + 1)
               = BlockOffset(out_file.bytes, i) + workers[i].output_size
        /\ \A i \in 0 .. block_count - 1 :
             /\ workers[i].output_size
                  = U32_SIZE + Len(ZStream(Slice(orig, workers[i].input, workers[i].input_size)))
             /\ Slice(out_file.bytes, BlockOffset(out_file.bytes, i), workers[i].output_size)
                  = Record(i)

\* The operation's result had the jobs run in the for loop.
SequentialOutcome ==
    LET plan == IF stage = "c" THEN CompressPlan(in_file) ELSE DecompressPlan(in_file)
        ws == ForLoop(LockAll(plan.workers, plan.block_count), plan.block_count)
    IN  IF stage = "c" THEN CompressOutcome(ws, plan.block_count)
        ELSE DecompressOutcome(ws, plan.block_count)

\* C8: concurrency equivalence.  After the scheduler path, for every
\* interleaving, the exit code and the bytes written are those of the
\* for loop on the same input.
C8_ParallelEqualsSequential ==
    (pc = "exit" /\ spc = "returned" /\ max_threads >= 2) =>
        /\ exit_code = SequentialOutcome.exit_code
        /\ out_file = SequentialOutcome.out_file

\* C8's case: a file was written after jobs ended out of index order.
C8_OutOfOrderCompletion ==
    /\ pc = "exit" /\ max_threads >= 2 /\ exit_code = "EXIT_SUCCESS"
    /\ Len(completed) >= 2 /\ completed[1] > completed[2]

\* C9: capacity errors.  compress_file fails and writes nothing when the
\* chunk count exceeds MAX_BLOCKS or a chunk's running sum exceeds
\* UINT32_MAX; every offset of a written header is the running sum itself.
C9_CapacityErrors ==
    (stage = "c" /\ pc = "exit") =>
        /\ CeilChunks(Len(orig)) > MAX_BLOCKS
             => (exit_code = "EXIT_FAILURE" /\ ~out_file.exists)
        /\ (\E i \in DOMAIN workers : RunningSum(i) > UINT32_MAX)
             => (exit_code = "EXIT_FAILURE" /\ ~out_file.exists)
        /\ out_file.exists
             => \A i \in 0 .. block_count - 1 : BlockOffset(out_file.bytes, i) = RunningSum(i)

\* C9's case: every job compressed and an offset did not fit.
C9_OffsetOverflowRejected ==
    /\ stage = "c" /\ pc = "exit" /\ error = "size_limit"
    /\ Failing = {} /\ block_count <= MAX_BLOCKS
    /\ \E i \in DOMAIN workers : RunningSum(i) > UINT32_MAX

\* C10: completion on return.  Once perform_job has returned, every job's
\* function call has ended and no job thread is left running.
C10_AllDoneOnReturn ==
    spc = "returned" =>
        \A i \in 0 .. block_count - 1 :
          /\ i \in Range(launched)
          /\ i \in Range(completed)
          /\ tpc[i] \notin {"codec", "unlock"}

\* C10's case: the scheduler path returned from several jobs.
C10_ParallelReturn ==
    /\ spc = "returned" /\ pc = "joined"
    /\ max_threads >= 2 /\ block_count >= 2

\* C11: scheduler termination.  With codec calls that end and threads that
\* are scheduled, every call of perform_job returns.
C11_SchedulerTermination == (pc = "job") ~> (spc = "returned")

\* C12: dispatch order.  Jobs are launched in ascending index order, job j
\* only after every job below j; under the scheduler the started flags are
\* those of the launched jobs.  The order of completion is not constrained.
C12_DispatchOrder ==
    /\ \A k \in DOMAIN launched : launched[k] = k - 1
    /\ (pc = "job" /\ spc \in {"next", "busy", "decide"}) =>
          \A i \in DOMAIN workers : workers[i].started <=> i < Len(launched)

\* C12's case: the scheduler launched three jobs in index order while the
\* first two ended in the opposite order.
C12_LaunchedInOrderEndedOutOfOrder ==
    /\ pc = "job" /\ max_threads >= 2
    /\ Len(launched) >= 3
    /\ Len(completed) >= 2 /\ completed[1] = 1 /\ completed[2] = 0

\* How often i occurs in the sequence s.
Times(s, i) == Cardinality({k \in DOMAIN s : s[k] = i})

\* The state of job i: Pending (0) until its function is called, Running
\* (1) until that call has ended, Done (2) after.
JobState(i) == IF Times(launched, i) = 0 THEN 0 ELSE IF Times(completed, i) = 0 THEN 1 ELSE 2

\* What the scheduler's poll observes of worker w, from the started flag
\* and try_lock: Pending (0), Running (1), Done (2).
Observed(w) == IF ~w.started THEN 0 ELSE IF w.mutex THEN 1 ELSE 2

\* No job is called twice, a call ends once and only after it began.
C13_CalledOnce ==
    \A i \in DOMAIN workers :
      /\ Times(launched, i) <= 1
      /\ Times(completed, i) <= Times(launched, i)

\* The mutex of a job is released once, when its function ends, and by
\* nothing but that function.
C13_ReleasedOnceByJob ==
    \A i \in DOMAIN workers : unlocks[i] = [job |-> Times(completed, i), poll |-> FALSE]

\* Within one call of perform_job a job's state only advances, under the
\* scheduler one state at a time, and a job the poll observes Done is
\* observed Done from then on.
C13_Advances ==
    \A i \in (DOMAIN workers) \cap (DOMAIN workers') :
      /\ JobState(i)' >= JobState(i)
      /\ max_threads >= 2 =>
            /\ JobState(i)' <= JobState(i) + 1
            /\ Observed(workers[i]) = 2 => Observed(workers'[i]) = 2

\* C13: per-job state machine.  Every job starts Pending and only moves
\* Pending -> Running -> Done; no job is launched twice; a job's mutex is
\* released exactly once and only by the job's own execution; a job once
\* observed Done by the poll is never again observed Running or Pending.
C13_JobStateMachine ==
    /\ [](C13_CalledOnce /\ C13_ReleasedOnceByJob)
    /\ [][C13_Advances]_vars

\* C14: decompression input bounds.  The view handed to inflate for block
\* i starts at block_offsets[i] + 4 and is file_size - (block_offsets[i] + 4)
\* bytes long, so it ends at the end of the file and never past it.
C14_InputBounds ==
    (stage = "d" /\ pc = "job") =>
        \A i \in DOMAIN workers :
          /\ workers[i].input = BlockOffset(in_file, i) + U32_SIZE
          /\ workers[i].input_size = Len(in_file) - (BlockOffset(in_file, i) + U32_SIZE)
          /\ workers[i].input + workers[i].input_size <= Len(in_file)

\* What the stream of worker w decodes to, read from the file alone and
\* with room for any length.
Decoded(w) == Inflate(Slice(in_file, w.input, Len(in_file) - w.input), UINT32_MAX)

\* C15: exact-fill decompression.  A decompression job ends without its
\* failure flag only if its stream is well-formed, complete, and decodes to
\* exactly output_size bytes, the size declared in the chunk's prefix.
C15_ExactFill ==
    stage = "d" =>
        \A i \in DOMAIN workers :
          (i \in Range(completed) /\ ~workers[i].failure) =>
              /\ Decoded(workers[i]).ok
              /\ Len(Decoded(workers[i]).out) = workers[i].output_size

\* The fields of worker w a job's function writes and the driver reads.
ResultFields(w) == <<w.failure, w.output, w.output_size>>

\* Worker w with everything but its mutex and started flag as constructed.
StatusOnly(w) == [NewWorker EXCEPT !.mutex = w.mutex, !.started = w.started]

\* perform_job's thread is inside the scheduler loop.
InScheduler == pc = "job" /\ spc \in {"next", "busy", "decide"}

\* While a job thread runs, the other thread is inside the scheduler loop,
\* where what it computes from a worker depends on the mutex and the
\* started flag alone.
C16_NoSharedAccess ==
    /\ Running # {} => InScheduler
    /\ InScheduler =>
          /\ next_worker(workers, block_count)
                = next_worker([i \in DOMAIN workers |-> StatusOnly(workers[i])], block_count)
          /\ \A i \in DOMAIN workers :
                BusyIncrement(workers[i]) = BusyIncrement(StatusOnly(workers[i]))

\* A step of the scheduler loop writes no result field; a step of a job
\* thread writes no started flag and no field of another job.
C16_WritesApart ==
    /\ (InScheduler /\ <<spc, bi>>' # <<spc, bi>>) =>
          \A i \in DOMAIN workers : ResultFields(workers'[i]) = ResultFields(workers[i])
    /\ \A i \in Running :
          tpc'[i] # tpc[i] =>
            /\ \A j \in DOMAIN workers : workers'[j].started = workers[j].started
            /\ \A j \in DOMAIN workers \ {i} : workers'[j] = workers[j]

\* C16: no observation of a running job.  The scheduler thread reads of a
\* launched job only its status and never touches its result fields; the
\* driver reads them only after perform_job returned, so no two threads
\* access a job's result fields at once; only the scheduler thread writes
\* the started flag.
C16_NoObservationOfRunningJob ==
    /\ []C16_NoSharedAccess
    /\ [][C16_WritesApart]_vars

\* C16's case: the poll is at a worker whose job thread is inside the
\* codec, after another job has ended.
C16_PollDuringCodec ==
    /\ pc = "job" /\ spc = "busy" /\ bi < block_count
    /\ tpc[bi] = "codec"
    /\ \E j \in DOMAIN tpc : tpc[j] = "exited"

\* C17: output assembly on success.  When decompress_file's jobs all ended
\* without failure it returns success and the output file is the
\* concatenation of the jobs' outputs in index order, also when a chunk's
\* declared size is 0; write_file fails on no other ground than I/O.
C17_OutputAssembly ==
    (stage = "d" /\ pc = "exit" /\ block_count >= 1
       /\ \A i \in 0 .. block_count - 1 : i \in Range(completed) /\ i \notin Failing) =>
        /\ exit_code = "EXIT_SUCCESS"
        /\ error = "none"
        /\ out_file.exists
        /\ out_file.bytes = Flatten([k \in 1 .. block_count |-> Record(k - 1)])

====
